---- MODULE Spec2Model ----
(***************************************************************************)
(* One client session of the live-transcription proxy (app.py): the JWT   *)
(* check on the WebSocket subprotocol, the upstream (Deepgram) connect,    *)
(* the two forwarding loops and the teardown in the handler's finally.     *)
(*                                                                         *)
(* The handler live_transcription and the task forward_from_deepgram are   *)
(* two asyncio coroutines on one event loop: each action below is the code *)
(* one of them runs between two awaits.  The client, the upstream and the  *)
(* clock are the environment.                                              *)
(***************************************************************************)
EXTENDS Integers, Sequences, FiniteSets, TLC

\* ------------------------------------------------------------------ bounds

MaxFrames == 2       \* frames the two peers send in one session, together
MaxTokens == 1       \* tokens /api/session issues
MaxProtos == 2       \* entries of the sec-websocket-protocol header

\* ------------------------------------------------------- program constants

JWT_EXPIRY == 3600

\* --------------------------------------------------------------- credentials

\* The instants the clock takes: the start, and the last second before and
\* the first second at the expiry of a token issued at the start.
Instants == {0, JWT_EXPIRY - 1, JWT_EXPIRY}

\* A token is a JWT (its signature made with SESSION_SECRET or not, its iat
\* and exp claims) or a string that is no JWT at all (no claims to read).
Jwt(sig, iat, exp) == [sig |-> sig, iat |-> iat, exp |-> exp]

Garbage == [sig |-> "undecodable", iat |-> 0, exp |-> 0]

\* What a client can fabricate without SESSION_SECRET: a JWT whose signature
\* does not verify, whatever its claims say.
ForgedTokens == {Jwt("bad", 0, 2 * JWT_EXPIRY + 1), Jwt("bad", 0, 0)}

\* jwt.encode({"iat": now, "exp": now + JWT_EXPIRY}, SESSION_SECRET, "HS256")
jwt_encode(t) == Jwt("good", t, t + JWT_EXPIRY)

\* jwt.decode(token, SESSION_SECRET, algorithms=["HS256"]) returns (TRUE) or
\* raises (FALSE): DecodeError for a malformed token, InvalidSignatureError,
\* ExpiredSignatureError when exp <= now.
jwt_decode_lax(token, t) == token # Garbage /\ token.sig = "good" /\ t <= token.exp

jwt_decode_noexp(token, t) == token # Garbage /\ token.sig = "good"

jwt_decode(token, t) == token # Garbage /\ token.sig = "good" /\ t < token.exp

\* One entry of the sec-websocket-protocol header, after split(",") and
\* strip(): "access_token.<token>" or some other subprotocol name.
AccessProto(token) == [access |-> TRUE, token |-> token]

OtherProto == [access |-> FALSE, token |-> Garbage]

\* Lines 139-148: the first entry that starts with "access_token." decides
\* (the loop breaks after it); valid_proto is that entry when its token
\* decodes, None otherwise.
\* Python's None, for the variables that hold a record, a tuple or a function
\* (the ones that hold a string use "None").
None == [none |-> TRUE]

RECURSIVE FirstAccess(_)
FirstAccess(protocol_list) ==
    IF protocol_list = <<>> THEN None
    ELSE IF Head(protocol_list).access THEN Head(protocol_list)
    ELSE FirstAccess(Tail(protocol_list))

PresentedToken(protocol_list) ==
    LET proto == FirstAccess(protocol_list)
    IN  IF proto # None THEN proto.token ELSE None

ValidProto(protocol_list, t) ==
    LET proto == FirstAccess(protocol_list)
    IN  IF proto # None /\ jwt_decode(proto.token, t) THEN proto ELSE None

\* -------------------------------------------------------- provider parameters

\* A parameter value is a string, kept as the sequence of its pieces: runs of
\* unreserved characters ("nova-2") and the URL delimiters "&", "=", "#".
DEEPGRAM_STT_URL == <<"wss://api.deepgram.com/v1/listen">>

ParamKeys ==
    <<"model", "language", "smart_format", "interim_results", "punctuate",
      "encoding", "sample_rate">>

Defaults ==
    [model |-> <<"nova-2">>, language |-> <<"en">>, smart_format |-> <<"true">>,
     interim_results |-> <<"true">>, punctuate |-> <<"true">>,
     encoding |-> <<"linear16">>, sample_rate |-> <<"16000">>]

\* (a variant that ignores the query string)
QueryGet_DefaultOnly(query_params, key) == Defaults[key]

\* websocket.query_params.get(key, default)
QueryGet(query_params, key) ==
    IF key \in DOMAIN query_params THEN query_params[key] ELSE Defaults[key]

\* Lines 172-181: the f-string, "key=value" joined by "&" after the "?".
RECURSIVE JoinParams(_, _)
JoinParams(query_params, i) ==
    IF i > Len(ParamKeys) THEN <<>>
    ELSE (IF i = 1 THEN <<>> ELSE <<"&">>)
         \o <<ParamKeys[i], "=">> \o QueryGet(query_params, ParamKeys[i])
         \o JoinParams(query_params, i + 1)

BuildUrl(query_params) == DEEPGRAM_STT_URL \o <<"?">> \o JoinParams(query_params, 1)

\* A request without a query string.
EmptyQuery == [k \in {} |-> <<>>]

KeySet == {ParamKeys[i] : i \in DOMAIN ParamKeys}

BooleanKeys == {"smart_format", "interim_results", "punctuate"}

\* What a client may put in a parameter: a value of the expected shape other
\* than the default, or a value that carries a parameter of its own.
Smuggled == <<"x", "&", "callback", "=", "evil">>

OtherValue ==
    [model |-> <<"nova-3">>, language |-> <<"fr">>, smart_format |-> <<"false">>,
     interim_results |-> <<"false">>, punctuate |-> <<"false">>,
     encoding |-> <<"opus">>, sample_rate |-> <<"48000">>]

\* The query strings of the requests: every parameter omitted, given with
\* another value of the expected shape, or given with the smuggling value.
UrlQueries ==
    {[k \in ks |-> IF smuggle[k] THEN Smuggled ELSE OtherValue[k]] :
        ks \in SUBSET KeySet, smuggle \in [KeySet -> BOOLEAN]}

\* ------------------------------------------------------------------- frames

Tags == {"text", "binary"}

Payloads == {"p"}

Frames == [tag : Tags, data : Payloads]

\* A Python value carried by a frame: str for a text frame, bytes for a
\* binary one.
PyValue(frame) ==
    [type |-> IF frame.tag = "text" THEN "str" ELSE "bytes", data |-> frame.data]

\* The frame a send of a Python value puts on the wire (websockets'
\* send(), Starlette's send_text / send_bytes).
WireFrame(tag, value) == [tag |-> tag, data |-> value.data]

EventType(name) == [type |-> "str", data |-> name]

\* The ASGI event websocket.receive() returns for a client frame: it has the
\* key "text" or the key "bytes" (uvicorn sets exactly one).
AsgiReceive(frame) ==
    IF frame.tag = "text"
    THEN [k \in {"type", "text"} |->
             IF k = "type" THEN EventType("websocket.receive") ELSE PyValue(frame)]
    ELSE [k \in {"type", "bytes"} |->
             IF k = "type" THEN EventType("websocket.receive") ELSE PyValue(frame)]

AsgiDisconnect == [k \in {"type"} |-> EventType("websocket.disconnect")]

\* json.dumps({"type": "Error", "description": str(e), "code": code})
ErrorJson(code) == [type |-> "str", data |-> code]

\* -------------------------------------------------------------------- state

VARIABLES
    now,            \* time.time(), in seconds
    issued,         \* the tokens /api/session has returned
    query_params,   \* websocket.query_params, the query string of the request
    token,          \* line 142: the token of the first access_token entry
    pc,             \* where the handler live_transcription is
    exc,            \* the exception the handler is unwinding with, or None
    valid_proto,    \* line 139
    deepgram_url,   \* line 172 (empty until then)
    connect_calls,  \* the URLs websockets.connect was called with
    deepgram_ws,    \* line 157: None, or the state of the upstream connection
    forward_task,   \* line 158: None, or the state of the asyncio task
    stop_event,     \* line 159
    message,        \* line 223: the handler's current ASGI event
    task_message,   \* line 195: the task's current upstream message
    websocket,      \* the client connection: "none", "open", "gone", "closed"
    client_state,   \* Starlette's WebSocket.client_state
    client_inbox,   \* ASGI events the client side has queued for receive()
    client_sent,    \* the frames the client has sent, in order
    client_log,     \* what was done on the client connection, in order
    upstream_inbox, \* messages of the upstream not yet iterated by the task
    upstream_sent,  \* the frames the upstream has sent, in order
    upstream_log,   \* the frames written to the upstream connection, in order
    close_result,   \* how line 256 ended, or None
    out_exit,       \* why the handler left its receive loop, or None
    in_exit         \* why the task left its loop, or None

vars ==
    <<now, issued, query_params, token, pc, exc, valid_proto, deepgram_url,
      connect_calls, deepgram_ws, forward_task, stop_event, message,
      task_message, websocket, client_state, client_inbox, client_sent,
      client_log, upstream_inbox, upstream_sent, upstream_log, close_result,
      out_exit, in_exit>>

auth_vars == <<now, issued>>

client_vars == <<websocket, client_state, client_inbox, client_sent, client_log>>

upstream_vars == <<deepgram_ws, upstream_inbox, upstream_sent, upstream_log>>

task_vars == <<forward_task, task_message, in_exit>>

handler_vars ==
    <<query_params, token, pc, exc, valid_proto, deepgram_url, connect_calls,
      stop_event, message, out_exit>>

NoFrame == [tag |-> "none", data |-> "none"]

LogEntry(op, src, frame, ok) == [op |-> op, src |-> src, frame |-> frame, ok |-> ok]

\* A write on the client connection: it is delivered when the peer is still
\* there, and raises otherwise.
ClientWrite(src, frame) ==
    Append(client_log, LogEntry("send", src, frame, websocket = "open"))

Task(at, must_cancel) == [at |-> at, must_cancel |-> must_cancel]

TaskDone(task) == task.at \in {"returned", "cancelled", "raised"}

\* Before the request: no token issued, nothing connected, the handler not
\* yet called.
InitSession ==
    /\ now = 0
    /\ issued = {}
    /\ token = None
    /\ pc = "idle"
    /\ exc = "None"
    /\ valid_proto = None
    /\ deepgram_url = <<>>
    /\ connect_calls = <<>>
    /\ deepgram_ws = "None"
    /\ forward_task = None
    /\ stop_event = FALSE
    /\ message = None
    /\ task_message = None
    /\ websocket = "none"
    /\ client_state = "CONNECTING"
    /\ client_inbox = <<>>
    /\ client_sent = <<>>
    /\ client_log = <<>>
    /\ upstream_inbox = <<>>
    /\ upstream_sent = <<>>
    /\ upstream_log = <<>>
    /\ close_result = "None"
    /\ out_exit = "None"
    /\ in_exit = "None"

Init == query_params = EmptyQuery /\ InitSession

\* ------------------------------------------------- clock and token issuing

\* The clock is read by get_session and by jwt.decode only, so it is let
\* run until the handshake.
Tick ==
    /\ pc = "idle"
    /\ \E t \in Instants : t > now /\ now' = t
    /\ UNCHANGED <<close_result, issued, client_vars, upstream_vars, task_vars,
                   handler_vars>>

\* GET /api/session
get_session ==
    /\ pc = "idle"
    /\ Cardinality(issued) < MaxTokens
    /\ issued' = issued \cup {jwt_encode(now)}
    /\ UNCHANGED <<close_result, now, client_vars, upstream_vars, task_vars,
                   handler_vars>>

\* The tokens a client can present: the ones it was issued, forgeries, and
\* strings that are no JWT.
Presentable == issued \cup ForgedTokens \cup {Garbage}

ProtoChoices == {OtherProto} \cup {AccessProto(t) : t \in Presentable}

ProtocolLists ==
    UNION {[1..n -> ProtoChoices] : n \in 0..MaxProtos}

\* ------------------------------------------------------------ the handler

\* (a variant that closes the upstream without awaiting the cancelled task)
Finally_CloseFirst ==
    /\ stop_event' = TRUE
    /\ IF forward_task # None
       THEN /\ forward_task' =
                  IF TaskDone(forward_task) THEN forward_task
                  ELSE Task(forward_task.at, TRUE)
            /\ pc' = "close"
       ELSE /\ pc' = "done"
            /\ UNCHANGED forward_task

\* (a variant that sets the event and awaits the task without cancelling it)
Finally_NoCancel ==
    /\ stop_event' = TRUE
    /\ IF forward_task # None
       THEN /\ pc' = "await_task"
            /\ UNCHANGED forward_task
       ELSE /\ pc' = "done"
            /\ UNCHANGED forward_task

\* Lines 243-250, entered from wherever the try block is left, with no await
\* on the way: the event is set; the task, if there is one, is cancelled
\* (cancel() of a finished task does nothing) and awaited; with no task
\* there is no upstream connection either, and the handler ends.
Finally ==
    /\ stop_event' = TRUE
    /\ IF forward_task # None
       THEN /\ forward_task' =
                  IF TaskDone(forward_task) THEN forward_task
                  ELSE Task(forward_task.at, TRUE)
            /\ pc' = "await_task"
       ELSE /\ pc' = "done"
            /\ UNCHANGED forward_task

\* Lines 137-154: the JWT of the subprotocol is checked; the connection is
\* closed with 4401, or accepted with the subprotocol echoed.
Handshake ==
    /\ pc = "idle"
    /\ \E protocol_list \in ProtocolLists :
          /\ token' = PresentedToken(protocol_list)
          /\ valid_proto' = ValidProto(protocol_list, now)
    /\ IF valid_proto' = None
       THEN /\ client_log' = Append(client_log,
                   LogEntry("close", "4401", NoFrame, TRUE))
            /\ websocket' = "closed"
            /\ client_state' = "DISCONNECTED"
            /\ pc' = "done"
       ELSE /\ client_log' = Append(client_log,
                   LogEntry("accept", "subprotocol", NoFrame, TRUE))
            /\ websocket' = "open"
            /\ client_state' = "CONNECTED"
            /\ pc' = "connect"
    /\ UNCHANGED <<close_result, auth_vars, upstream_vars, task_vars,
                   query_params, exc, deepgram_url,
                   connect_calls, stop_event, message, out_exit, client_inbox,
                   client_sent>>

\* Lines 163-189: the URL is built from the query string and
\* websockets.connect is called with it.
Connect ==
    /\ pc = "connect"
    /\ deepgram_url' = BuildUrl(query_params)
    /\ connect_calls' = Append(connect_calls, deepgram_url')
    /\ pc' = "connecting"
    /\ UNCHANGED <<close_result, auth_vars, client_vars, upstream_vars,
                   task_vars, query_params, token,
                   exc, valid_proto, stop_event, message, out_exit>>

\* Lines 186-218: the connect returns a connection; the task is created.
ConnectOk ==
    /\ pc = "connecting"
    /\ deepgram_ws' = "open"
    /\ forward_task' = Task("created", FALSE)
    /\ pc' = "receive"
    /\ UNCHANGED <<close_result, auth_vars, client_vars, upstream_inbox, upstream_sent,
                   upstream_log, task_message, in_exit, query_params, token, exc,
                   valid_proto, deepgram_url, connect_calls, stop_event,
                   message, out_exit>>

\* (a variant whose except block only prints)
ConnectFail_Silent ==
    /\ pc = "connecting"
    /\ Finally
    /\ UNCHANGED <<close_result, auth_vars, upstream_vars, task_message, in_exit,
                   query_params, token, valid_proto, deepgram_url,
                   connect_calls, message, out_exit, client_vars, exc>>

\* Lines 186, 235-241: the connect raises (unavailable, rejected, timed out);
\* CONNECTION_FAILED is written to the client, and that write raises out of
\* the except block when the client is gone.
ConnectFail ==
    /\ pc = "connecting"
    /\ client_log' = ClientWrite("CONNECTION_FAILED",
                                 WireFrame("text", ErrorJson("CONNECTION_FAILED")))
    /\ exc' = IF websocket = "open" THEN "None" ELSE "Exception"
    /\ Finally
    /\ UNCHANGED <<close_result, auth_vars, upstream_vars, task_message, in_exit,
                   query_params, token, valid_proto, deepgram_url,
                   connect_calls, message, out_exit, websocket, client_state,
                   client_inbox, client_sent>>

\* Lines 222-228: one receive() of the loop.  Starlette returns the
\* disconnect event once (it has neither "text" nor "bytes", so the loop goes
\* round) and raises RuntimeError on the receive() after it.
Receive ==
    /\ pc = "receive"
    /\ IF client_state = "DISCONNECTED"
       THEN /\ out_exit' = "disconnect"
            /\ Finally
            /\ UNCHANGED <<message, client_inbox, client_state>>
       ELSE /\ client_inbox # <<>>
            /\ message' = Head(client_inbox)
            /\ client_inbox' = Tail(client_inbox)
            /\ client_state' =
                  IF message' = AsgiDisconnect THEN "DISCONNECTED" ELSE client_state
            /\ pc' = IF "text" \in DOMAIN message' \/ "bytes" \in DOMAIN message'
                     THEN "send_up" ELSE "receive"
            /\ UNCHANGED <<out_exit, stop_event, forward_task>>
    /\ UNCHANGED <<close_result, auth_vars, upstream_vars, task_message, in_exit,
                   query_params, token, exc, valid_proto, deepgram_url,
                   connect_calls, websocket, client_sent, client_log>>

\* Lines 225-228: which value of the event goes to deepgram_ws.send().
Forwarded(event) ==
    IF "text" \in DOMAIN event THEN event["text"] ELSE event["bytes"]

\* (a variant that sends every value as text)
UpstreamFrame_AsText(value) == WireFrame("text", value)

\* deepgram_ws.send(value): a str goes out as a text frame, bytes as a
\* binary frame.
UpstreamFrame(value) ==
    WireFrame(IF value.type = "str" THEN "text" ELSE "binary", value)

\* (a variant without the inner try: a failed send reaches line 235)
SendUp_Propagates ==
    /\ pc = "send_up"
    /\ IF deepgram_ws = "open"
       THEN /\ upstream_log' =
                  Append(upstream_log, UpstreamFrame(Forwarded(message)))
            /\ pc' = "receive"
            /\ UNCHANGED <<out_exit, stop_event, forward_task, client_log>>
       ELSE /\ out_exit' = "send_failed"
            /\ client_log' = ClientWrite("CONNECTION_FAILED",
                                 WireFrame("text", ErrorJson("CONNECTION_FAILED")))
            /\ Finally
            /\ UNCHANGED upstream_log
    /\ UNCHANGED <<close_result, auth_vars, task_message, in_exit,
                   query_params, token, exc, valid_proto, deepgram_url,
                   connect_calls, message, deepgram_ws, upstream_inbox,
                   upstream_sent, websocket, client_state, client_inbox,
                   client_sent>>

\* Lines 226/228 and 232: the send to the upstream completes, or raises
\* ConnectionClosed when the upstream is no longer open.
SendUp ==
    /\ pc = "send_up"
    /\ IF deepgram_ws = "open"
       THEN /\ upstream_log' =
                  Append(upstream_log, UpstreamFrame(Forwarded(message)))
            /\ pc' = "receive"
            /\ UNCHANGED <<out_exit, stop_event, forward_task>>
       ELSE /\ out_exit' = "send_failed"
            /\ Finally
            /\ UNCHANGED upstream_log
    /\ UNCHANGED <<close_result, auth_vars, client_vars, task_message, in_exit,
                   query_params, token, exc, valid_proto, deepgram_url,
                   connect_calls, message, deepgram_ws, upstream_inbox,
                   upstream_sent>>

\* The handler's task is cancelled from outside while it is suspended in the
\* connect, in receive() or in the send to the upstream: CancelledError is no
\* Exception, so neither line 232 nor line 235 catches it.
Cancel ==
    /\ pc \in {"connecting", "receive", "send_up"}
    /\ exc' = "CancelledError"
    /\ out_exit' = IF pc = "connecting" THEN out_exit ELSE "cancelled"
    /\ Finally
    /\ \/ UNCHANGED upstream_log
       \/ /\ pc = "send_up"
          /\ deepgram_ws = "open"
          /\ upstream_log' =
                Append(upstream_log, UpstreamFrame(Forwarded(message)))
    /\ UNCHANGED <<close_result, auth_vars, client_vars, task_message, in_exit,
                   query_params, token, valid_proto, deepgram_url,
                   connect_calls, message, deepgram_ws, upstream_inbox,
                   upstream_sent>>

\* (a variant that does not wait for the task)
AwaitTask_NoWait ==
    /\ pc = "await_task"
    /\ IF forward_task.at = "raised"
       THEN exc' = "TaskError" /\ pc' = "done"
       ELSE exc' = exc /\ pc' = "close"
    /\ UNCHANGED <<close_result, auth_vars, client_vars, upstream_vars,
                   task_vars, query_params, token,
                   valid_proto, deepgram_url, connect_calls, stop_event,
                   message, out_exit>>

\* Lines 249-252: the await returns when the task has returned, swallows the
\* task's CancelledError, and re-raises any other exception of the task.
AwaitTask ==
    /\ pc = "await_task"
    /\ TaskDone(forward_task)
    /\ IF forward_task.at = "raised"
       THEN exc' = "TaskError" /\ pc' = "done"
       ELSE exc' = exc /\ pc' = "close"
    /\ UNCHANGED <<close_result, auth_vars, client_vars, upstream_vars,
                   task_vars, query_params, token,
                   valid_proto, deepgram_url, connect_calls, stop_event,
                   message, out_exit>>

\* Lines 254-260: the upstream connection, if there is one, is closed; an
\* exception of close() is printed.
CloseUpstream ==
    /\ pc = "close"
    /\ IF deepgram_ws # "None"
       THEN /\ deepgram_ws' = "closed"
            /\ \E result \in {"closed", "close_raised"} : close_result' = result
       ELSE UNCHANGED <<deepgram_ws, close_result>>
    /\ pc' = "done"
    /\ UNCHANGED <<auth_vars, client_vars, task_vars, query_params, token, exc,
                   valid_proto,
                   deepgram_url, connect_calls, stop_event, message, out_exit,
                   upstream_inbox, upstream_sent, upstream_log>>

\* The server closes the client connection once the handler has returned or
\* raised (uvicorn, after the ASGI application ends).
ServerClose ==
    /\ pc = "done"
    /\ websocket \in {"open", "gone"}
    /\ websocket' = "closed"
    /\ client_log' = Append(client_log, LogEntry("close", "server", NoFrame, TRUE))
    /\ UNCHANGED <<auth_vars, upstream_vars, task_vars, handler_vars,
                   close_result, client_state, client_inbox, client_sent>>

\* ----------------------------------------------- the task forward_from_deepgram

\* (a variant without the isinstance test: always send_text)
ClientFrame_AsText(value) == WireFrame("text", value)

\* send_bytes for bytes, send_text otherwise (lines 200-203).
ClientFrame(value) ==
    WireFrame(IF value.type = "bytes" THEN "binary" ELSE "text", value)

\* The first step of the task; a task cancelled before it never enters its
\* try block.
TaskStart ==
    /\ forward_task # None
    /\ forward_task.at = "created"
    /\ IF forward_task.must_cancel
       THEN forward_task' = Task("cancelled", FALSE) /\ in_exit' = "cancelled"
       ELSE forward_task' = Task("iter", FALSE) /\ UNCHANGED in_exit
    /\ UNCHANGED <<auth_vars, client_vars, upstream_vars, handler_vars,
                   close_result, task_message>>

\* (a variant that takes the end of the iteration for an error)
TaskNext_CloseIsError ==
    /\ forward_task # None
    /\ forward_task.at = "iter"
    /\ ~forward_task.must_cancel
    /\ IF upstream_inbox # <<>>
       THEN /\ upstream_inbox' = Tail(upstream_inbox)
            /\ forward_task' = Task("send", FALSE)
            /\ task_message' = PyValue(Head(upstream_inbox))
            /\ UNCHANGED in_exit
       ELSE /\ deepgram_ws \in {"peer_ok", "peer_err"}
            /\ forward_task' = Task("report", FALSE)
            /\ in_exit' =
                  IF deepgram_ws = "peer_ok" THEN "closed_ok" ELSE "closed_err"
            /\ UNCHANGED <<upstream_inbox, task_message>>
    /\ UNCHANGED <<auth_vars, client_vars, handler_vars, close_result,
                   deepgram_ws, upstream_sent, upstream_log>>

\* Lines 195-203, 205-206: the next message of the upstream, the check of
\* stop_event, and the start of the write to the client; the iteration ends
\* when the upstream has closed and nothing is left to deliver.
TaskNext ==
    /\ forward_task # None
    /\ forward_task.at = "iter"
    /\ ~forward_task.must_cancel
    /\ IF upstream_inbox # <<>>
       THEN /\ upstream_inbox' = Tail(upstream_inbox)
            /\ IF stop_event
               THEN /\ forward_task' = Task("returned", FALSE)
                    /\ in_exit' = "stop"
                    /\ UNCHANGED task_message
               ELSE /\ forward_task' = Task("send", FALSE)
                    /\ task_message' = PyValue(Head(upstream_inbox))
                    /\ UNCHANGED in_exit
       ELSE /\ deepgram_ws \in {"peer_ok", "peer_err"}
            /\ forward_task' = Task("returned", FALSE)
            /\ in_exit' =
                  IF deepgram_ws = "peer_ok" THEN "closed_ok" ELSE "closed_err"
            /\ UNCHANGED <<upstream_inbox, task_message>>
    /\ UNCHANGED <<auth_vars, client_vars, handler_vars, close_result,
                   deepgram_ws, upstream_sent, upstream_log>>

\* Line 195 raising something other than ConnectionClosed: line 209 catches
\* it and the error report starts.
TaskRecvRaises ==
    /\ forward_task # None
    /\ forward_task.at = "iter"
    /\ ~forward_task.must_cancel
    /\ deepgram_ws = "open"
    /\ forward_task' = Task("report", FALSE)
    /\ in_exit' = "recv_error"
    /\ UNCHANGED <<auth_vars, client_vars, upstream_vars, handler_vars,
                   close_result, task_message>>

\* Lines 200-203 and 209-210: the write to the client completes and the loop
\* goes round, or it raises and the error report starts.
TaskSend ==
    /\ forward_task # None
    /\ forward_task.at = "send"
    /\ ~forward_task.must_cancel
    /\ client_log' = ClientWrite("relay", ClientFrame(task_message))
    /\ IF websocket = "open"
       THEN forward_task' = Task("iter", FALSE) /\ UNCHANGED in_exit
       ELSE forward_task' = Task("report", FALSE) /\ in_exit' = "send_error"
    /\ UNCHANGED <<auth_vars, upstream_vars, handler_vars, close_result,
                   task_message, websocket, client_state, client_inbox,
                   client_sent>>

\* (a variant that tries the report again when its write raised)
TaskReport_Retry ==
    /\ forward_task # None
    /\ forward_task.at = "report"
    /\ ~forward_task.must_cancel
    /\ client_log' = ClientWrite("PROVIDER_ERROR",
                                 WireFrame("text", ErrorJson("PROVIDER_ERROR")))
    /\ forward_task' =
          Task(IF websocket = "open" THEN "returned" ELSE "report", FALSE)
    /\ UNCHANGED <<auth_vars, upstream_vars, handler_vars, close_result,
                   task_message, in_exit, websocket, client_state, client_inbox,
                   client_sent>>

\* Lines 211-215: PROVIDER_ERROR is written to the client; the task returns,
\* or the write raises out of the except block and the task ends with that
\* exception.
TaskReport ==
    /\ forward_task # None
    /\ forward_task.at = "report"
    /\ ~forward_task.must_cancel
    /\ client_log' = ClientWrite("PROVIDER_ERROR",
                                 WireFrame("text", ErrorJson("PROVIDER_ERROR")))
    /\ forward_task' =
          Task(IF websocket = "open" THEN "returned" ELSE "raised", FALSE)
    /\ UNCHANGED <<auth_vars, upstream_vars, handler_vars, close_result,
                   task_message, in_exit, websocket, client_state, client_inbox,
                   client_sent>>

\* CancelledError delivered at the await the task is suspended in: line 207
\* swallows it in the loop (the task returns); in the except block of line
\* 209 nothing catches it (the task ends cancelled).  The interrupted write
\* may or may not have reached the client.
TaskCancelled ==
    /\ forward_task # None
    /\ forward_task.must_cancel
    /\ forward_task.at \in {"iter", "send", "report"}
    /\ forward_task' =
          Task(IF forward_task.at = "report" THEN "cancelled" ELSE "returned", FALSE)
    /\ in_exit' = IF in_exit = "None" THEN "cancelled" ELSE in_exit
    /\ \/ UNCHANGED client_log
       \/ /\ forward_task.at = "send"
          /\ websocket = "open"
          /\ client_log' = ClientWrite("relay", ClientFrame(task_message))
       \/ /\ forward_task.at = "report"
          /\ websocket = "open"
          /\ client_log' = ClientWrite("PROVIDER_ERROR",
                                       WireFrame("text", ErrorJson("PROVIDER_ERROR")))
    /\ UNCHANGED <<auth_vars, upstream_vars, handler_vars, close_result,
                   task_message, websocket, client_state, client_inbox,
                   client_sent>>

\* ------------------------------------------------------------ environment

ClientSend ==
    /\ websocket = "open"
    /\ Len(client_sent) + Len(upstream_sent) < MaxFrames
    /\ \E frame \in Frames :
          /\ client_sent' = Append(client_sent, frame)
          /\ client_inbox' = Append(client_inbox, AsgiReceive(frame))
    /\ UNCHANGED <<auth_vars, upstream_vars, task_vars, handler_vars,
                   close_result, websocket, client_state, client_log>>

ClientDisconnect ==
    /\ websocket = "open"
    /\ websocket' = "gone"
    /\ client_inbox' = Append(client_inbox, AsgiDisconnect)
    /\ UNCHANGED <<auth_vars, upstream_vars, task_vars, handler_vars,
                   close_result, client_state, client_sent, client_log>>

UpstreamSend ==
    /\ deepgram_ws = "open"
    /\ Len(client_sent) + Len(upstream_sent) < MaxFrames
    /\ \E frame \in Frames :
          /\ upstream_sent' = Append(upstream_sent, frame)
          /\ upstream_inbox' = Append(upstream_inbox, frame)
    /\ UNCHANGED <<auth_vars, client_vars, task_vars, handler_vars,
                   close_result, deepgram_ws, upstream_log>>

\* The upstream closes the connection: with a normal close code (the
\* iteration of line 195 just ends) or not (ConnectionClosedError).
UpstreamClose ==
    /\ deepgram_ws = "open"
    /\ \E how \in {"peer_ok", "peer_err"} : deepgram_ws' = how
    /\ UNCHANGED <<auth_vars, client_vars, task_vars, handler_vars,
                   close_result, upstream_inbox, upstream_sent, upstream_log>>

Next ==
    \/ Tick
    \/ get_session
    \/ Handshake
    \/ Connect
    \/ ConnectOk
    \/ ConnectFail
    \/ Receive
    \/ SendUp
    \/ Cancel
    \/ AwaitTask
    \/ CloseUpstream
    \/ ServerClose
    \/ TaskStart
    \/ TaskNext
    \/ TaskRecvRaises
    \/ TaskSend
    \/ TaskReport
    \/ TaskCancelled
    \/ ClientSend
    \/ ClientDisconnect
    \/ UpstreamSend
    \/ UpstreamClose

Spec == Init /\ [][Next]_vars

\* The event loop runs every coroutine that can run, websockets.connect
\* returns or raises (it has an open timeout), and the server closes the
\* client connection after the handler.  Nothing obliges the client or the
\* upstream to send or to close, nor anyone to cancel the handler.
Fairness ==
    /\ WF_vars(Connect)
    /\ WF_vars(ConnectOk \/ ConnectFail)
    /\ WF_vars(Receive)
    /\ WF_vars(SendUp)
    /\ WF_vars(AwaitTask)
    /\ WF_vars(CloseUpstream)
    /\ WF_vars(ServerClose)
    /\ WF_vars(TaskStart)
    /\ WF_vars(TaskNext)
    /\ WF_vars(TaskSend)
    /\ WF_vars(TaskReport)
    /\ WF_vars(TaskCancelled)

FairSpec == Spec /\ Fairness

\* ------------------------------------------------------------------ claims

\* The handler has returned or raised and the server has closed the client
\* connection: nothing more happens in the session.
Terminal == pc = "done" /\ websocket = "closed"

Relaying == pc \in {"receive", "send_up"}

ErrorFrame(code) == WireFrame("text", ErrorJson(code))

\* The positions of client_log where the error message with this code was
\* written, delivered or not.
ErrorWrites(code) ==
    {i \in DOMAIN client_log :
        client_log[i].op = "send" /\ client_log[i].frame = ErrorFrame(code)}

ErrorsDelivered(code) == {i \in ErrorWrites(code) : client_log[i].ok}

Accepted == \E i \in DOMAIN client_log : client_log[i].op = "accept"

\* C1: once the handler has finished and the client connection is closed,
\* the upstream connection is not left open, whatever failed and in whatever
\* order.
C1_NoOpenUpstreamAtEnd == Terminal => deepgram_ws # "open"

\* C2: when the upstream has closed cleanly while the session relays, the
\* client connection is eventually closed, the client doing nothing more.
C2_CleanCloseClosesClient ==
    (Relaying /\ deepgram_ws = "peer_ok") ~> (websocket = "closed")

\* C3: a session whose write to the upstream failed ends with exactly one
\* PROVIDER_ERROR message delivered to the client.
C3_OneProviderErrorOnSendFailure ==
    (Terminal /\ out_exit = "send_failed")
        => Cardinality(ErrorsDelivered("PROVIDER_ERROR")) = 1

\* The credential a session presented is good when this server issued it
\* (only SESSION_SECRET signs) and it has not expired at the handshake.
CredentialGood == token # None /\ token \in issued /\ now < token.exp

\* C4: a session that presented no credential, or one that is malformed,
\* wrongly signed or expired, is closed with 4401 and nothing else: it is not
\* accepted, websockets.connect is not called, no task is created and no
\* frame is relayed.
C4_InvalidCredentialRefused ==
    (pc # "idle" /\ ~CredentialGood)
        => /\ pc = "done"
           /\ websocket = "closed"
           /\ client_log = <<LogEntry("close", "4401", NoFrame, TRUE)>>
           /\ connect_calls = <<>>
           /\ deepgram_ws = "None"
           /\ forward_task = None
           /\ upstream_log = <<>>

C4_Witness ==
    /\ pc = "done"
    /\ token \in issued
    /\ now >= token.exp
    /\ client_log = <<LogEntry("close", "4401", NoFrame, TRUE)>>

\* C5: the client connection is accepted only with a token whose signature
\* verifies (this server issued it) and whose expiry is strictly after the
\* time of the handshake.
C5_AcceptedOnlyIfValid ==
    Accepted => token # None /\ token \in issued /\ now < token.exp

C5_Witness == Accepted /\ token \in issued /\ now = token.exp - 1

IsPrefix(a, b) == Len(a) <= Len(b) /\ \A i \in 1..Len(a) : a[i] = b[i]

\* The client has nothing queued for receive() but, at most, its disconnect.
NoFrameQueued == client_inbox \in {<<>>, <<AsgiDisconnect>>}

\* C6: the frames written to the upstream are at every moment a prefix of
\* the frames the client sent, tag and payload kept; whenever the handler
\* waits in receive() with no frame queued, all of them have been written;
\* and a frame not yet written is written unless the loop ends first.
C6_ClientFramesRelayedInOrder ==
    /\ [](IsPrefix(upstream_log, client_sent))
    /\ []((pc = "receive" /\ NoFrameQueued) => upstream_log = client_sent)
    /\ (Relaying /\ upstream_log # client_sent)
          ~> (upstream_log = client_sent \/ ~Relaying)

C6_Witness ==
    /\ Len(upstream_log) = 2
    /\ upstream_log = client_sent
    /\ upstream_log[1].tag # upstream_log[2].tag

IsDataWrite(entry) ==
    /\ entry.op = "send"
    /\ entry.ok
    /\ entry.frame # ErrorFrame("PROVIDER_ERROR")
    /\ entry.frame # ErrorFrame("CONNECTION_FAILED")

\* The data frames delivered on the client connection, in order.
DataWritten ==
    LET writes == SelectSeq(client_log, IsDataWrite)
    IN  [i \in 1..Len(writes) |-> writes[i].frame]

TaskRunning == forward_task # None /\ ~TaskDone(forward_task)

\* C7: the data frames written to the client are at every moment a prefix
\* of the frames the upstream sent, tag and payload kept; whenever the task
\* waits for the next message with none queued and no cancellation pending,
\* all of them have been written; and a frame not yet written is written
\* unless the task ends first.
C7_UpstreamFramesRelayedInOrder ==
    /\ [](IsPrefix(DataWritten, upstream_sent))
    /\ []((/\ forward_task # None
           /\ forward_task.at = "iter"
           /\ ~forward_task.must_cancel
           /\ upstream_inbox = <<>>) => DataWritten = upstream_sent)
    /\ (TaskRunning /\ DataWritten # upstream_sent)
          ~> (DataWritten = upstream_sent \/ ~TaskRunning)

C7_Witness ==
    /\ Len(DataWritten) = 2
    /\ DataWritten = upstream_sent
    /\ DataWritten[1].tag # DataWritten[2].tag

\* websockets.connect was called and raised an Exception: it is over, left no
\* connection, and the handler was not cancelled in it.
ConnectFailed ==
    /\ connect_calls # <<>>
    /\ pc # "connecting"
    /\ deepgram_ws = "None"
    /\ exc # "CancelledError"

Disconnected == \E i \in DOMAIN client_inbox : client_inbox[i] = AsgiDisconnect

\* C8: after a failed connect no task is ever created and no frame is
\* written to the upstream, and the handler has written the CONNECTION_FAILED
\* message (type Error) to the client, once, before the client connection is
\* closed; the message is delivered unless the client had disconnected.
C8_ConnectFailureReported ==
    ConnectFailed
        => /\ forward_task = None
           /\ upstream_log = <<>>
           /\ Cardinality(ErrorWrites("CONNECTION_FAILED")) = 1
           /\ \A i \in ErrorWrites("CONNECTION_FAILED") :
                 /\ \A j \in 1..i : client_log[j].op # "close"
                 /\ client_log[i].ok \/ Disconnected

C8_Witness ==
    /\ ConnectFailed
    /\ Terminal
    /\ client_inbox # <<>>
    /\ Cardinality(ErrorsDelivered("CONNECTION_FAILED")) = 1

UrlInit == query_params \in UrlQueries /\ InitSession

UrlNext == get_session \/ Handshake \/ Connect \/ ConnectOk \/ ConnectFail

UrlSpec == UrlInit /\ [][UrlNext]_vars

Delimiters == {"&", "=", "#", "?"}

\* The expected shape of a parameter value: true or false for the three
\* flags, one run of unreserved characters for the others.
AllowListed(key, value) ==
    IF key \in BooleanKeys
    THEN value \in {<<"true">>, <<"false">>}
    ELSE Len(value) = 1 /\ value[1] \notin Delimiters

\* The string has the value in it, at some position.
Contains(string, value) ==
    \E at \in 0..(Len(string) - Len(value)) :
        \A i \in 1..Len(value) : string[at + i] = value[i]

\* C10: no address websockets.connect is called with contains a client
\* value that is outside the allow-list of its parameter.
C10_NoUnvalidatedValueInUrl ==
    \A n \in DOMAIN connect_calls : \A key \in DOMAIN query_params :
        ~AllowListed(key, query_params[key])
            => ~Contains(connect_calls[n], query_params[key])

\* The pieces of the string before the first separator, and after it.
RECURSIVE Before(_, _)
Before(string, sep) ==
    IF string = <<>> \/ Head(string) = sep THEN <<>>
    ELSE <<Head(string)>> \o Before(Tail(string), sep)

After(string, sep) ==
    SubSeq(string, Len(Before(string, sep)) + 2, Len(string))

\* string.split(sep)
RECURSIVE Split(_, _)
Split(string, sep) ==
    IF Len(Before(string, sep)) = Len(string) THEN <<string>>
    ELSE <<Before(string, sep)>> \o Split(After(string, sep), sep)

\* The key/value pairs the upstream reads from the query of an address:
\* the part after "?", split on "&", each pair split on its first "=".
QueryPairs(url) ==
    LET pairs == Split(After(url, "?"), "&")
    IN  [i \in 1..Len(pairs) |->
            [key |-> Before(pairs[i], "="), value |-> After(pairs[i], "=")]]

\* Every parameter the client gave has a value of the expected shape.
ValidQuery ==
    \A key \in DOMAIN query_params : AllowListed(key, query_params[key])

\* The defaults as documented.
DocumentedDefaults ==
    [model |-> <<"nova-2">>, language |-> <<"en">>, smart_format |-> <<"true">>,
     interim_results |-> <<"true">>, punctuate |-> <<"true">>,
     encoding |-> <<"linear16">>, sample_rate |-> <<"16000">>]

\* C11: with valid parameters, whichever are given and whichever omitted,
\* the address of every upstream connect carries exactly the seven pairs
\* model, language, smart_format, interim_results, punctuate, encoding and
\* sample_rate, each with the client's value when given and the documented
\* default otherwise, the three flags being the strings true or false.
C11_SevenPairsProvidedOrDefault ==
    ValidQuery =>
        \A n \in DOMAIN connect_calls :
            LET pairs == QueryPairs(connect_calls[n])
            IN  /\ Before(connect_calls[n], "?") = DEEPGRAM_STT_URL
                /\ Len(pairs) = 7
                /\ \A i \in 1..7 :
                      /\ pairs[i].key = <<ParamKeys[i]>>
                      /\ pairs[i].value =
                            IF ParamKeys[i] \in DOMAIN query_params
                            THEN query_params[ParamKeys[i]]
                            ELSE DocumentedDefaults[ParamKeys[i]]
                      /\ ParamKeys[i] \in BooleanKeys
                            => pairs[i].value \in {<<"true">>, <<"false">>}

C11_Witness ==
    /\ ValidQuery
    /\ DOMAIN query_params = {"model", "punctuate", "sample_rate"}
    /\ connect_calls # <<>>
    /\ deepgram_ws = "open"

\* -------------------------------------------------- the two loops, shutdown

TaskEnded == forward_task # None /\ TaskDone(forward_task)

\* The task left its loop through the except block of line 209: the receive
\* from the upstream raised, or a write to the client did.
TaskFailed == in_exit \in {"recv_error", "send_error"}

\* C12: when the task has ended after a failed receive from the upstream or
\* a failed write to the client, the shutdown signal is eventually set and
\* the handler leaves its receive loop.
C12_TaskFailureStopsHandler ==
    (TaskEnded /\ TaskFailed) ~> (stop_event /\ ~Relaying)

\* The handler has left its receive loop (through line 230, 232's enclosing
\* try, or a cancellation) after the relay had started.
OutboundEnded == out_exit # "None"

\* C13: in every state where the handler has left its receive loop the
\* shutdown signal is set, and from there the task eventually has exited,
\* whatever it was doing, waiting for an upstream that sends nothing more
\* included (no fairness obliges the upstream to send or to close).
C13_OutboundExitStopsTask ==
    /\ [](OutboundEnded => stop_event)
    /\ OutboundEnded ~> TaskEnded

\* The task was cancelled out of that wait, and the session went on to close
\* the upstream.
C13_Witness ==
    /\ out_exit = "disconnect"
    /\ in_exit = "cancelled"
    /\ forward_task.at = "returned"
    /\ upstream_inbox = <<>>
    /\ upstream_sent = <<>>
    /\ deepgram_ws = "closed"

\* ---------------------------------------------------------------- teardown

\* The handler has run its finally block to its end, or left it raising.
TeardownOver == pc = "done" /\ stop_event

\* C14: when the teardown is over, no exception of the awaited task has left
\* it, and the close of the upstream connection, if there was one, has been
\* attempted, however the task ended and whether or not the close raised.
C14_TeardownNeverRaises ==
    TeardownOver
        => /\ exc # "TaskError"
           /\ deepgram_ws # "None" => close_result # "None"

\* --------------------------------------------------------------- lifecycle

LifecycleOrder == <<"Connecting", "Authorized", "Relaying", "Closing", "Closed">>

\* The lifecycle state of the session, read off the handler's position:
\* Connecting until the credential is checked (line 150), Authorized until
\* the upstream connect has returned (line 189), Relaying inside the receive
\* loop (lines 221-233), Closing from the entry into the finally block, and
\* Closed when the handler has ended and the client connection is closed.
Lifecycle ==
    CASE pc = "idle" -> "Connecting"
      [] pc \in {"connect", "connecting"} -> "Authorized"
      [] pc \in {"receive", "send_up"} -> "Relaying"
      [] pc \in {"await_task", "close"} -> "Closing"
      [] pc = "done" -> IF websocket = "closed" THEN "Closed" ELSE "Closing"

Rank(state) == CHOOSE i \in DOMAIN LifecycleOrder : LifecycleOrder[i] = state

\* What the session's two coroutines and the server write.
session_vars ==
    <<token, pc, exc, valid_proto, deepgram_url, connect_calls, forward_task,
      stop_event, message, task_message, websocket, client_state, client_log,
      upstream_log, close_result, out_exit, in_exit>>

\* C15: the lifecycle state never goes backwards; Relaying is entered only
\* from Authorized, with the upstream connection open; in Closed both loops
\* have exited; and once Closed the session does nothing more.
C15_LifecycleOnlyAdvances ==
    /\ [][Rank(Lifecycle') >= Rank(Lifecycle)]_vars
    /\ [][(Lifecycle' = "Relaying" /\ Lifecycle # "Relaying")
             => (Lifecycle = "Authorized" /\ deepgram_ws' = "open")]_vars
    /\ [](Lifecycle = "Closed"
             => (~Relaying /\ (forward_task = None \/ TaskDone(forward_task))))
    /\ [][Lifecycle = "Closed" => UNCHANGED session_vars]_vars

C15_Witness ==
    /\ Lifecycle = "Closed"
    /\ out_exit = "disconnect"
    /\ upstream_log # <<>>
    /\ DataWritten # <<>>
    /\ close_result = "closed"

\* C16: when a handler that was cancelled while suspended in receive() or in
\* the send to the upstream has ended, the shutdown signal is set, the task
\* has exited and the upstream connection has been closed.
C16_CancelledHandlerReleases ==
    (pc = "done" /\ out_exit = "cancelled")
        => /\ stop_event
           /\ TaskEnded
           /\ deepgram_ws = "closed"

\* ----------------------------------------------------------------- writers

\* The writes of client_log the task makes: a relayed frame, its
\* PROVIDER_ERROR report.
TaskWrites == {"relay", "PROVIDER_ERROR"}

\* The entries this step appends to client_log that are writes.
NewClientWrites ==
    {client_log'[i] : i \in {j \in (DOMAIN client_log') \ (DOMAIN client_log) :
                                client_log'[j].op = "send"}}

\* C17: once the task has been created, a write on the client connection is
\* made in a step of the running task (the handler does not move), a write
\* on the upstream connection in a step of the handler at its send (the task
\* does not move), and CONNECTION_FAILED is written only in a session that
\* has no task.
C17_OneWriterPerConnection ==
    /\ [][(forward_task # None /\ NewClientWrites # {})
            => /\ TaskRunning
               /\ forward_task' # forward_task
               /\ pc' = pc
               /\ \A entry \in NewClientWrites : entry.src \in TaskWrites]_vars
    /\ [][(forward_task # None /\ upstream_log' # upstream_log)
            => /\ pc = "send_up"
               /\ pc' # pc
               /\ forward_task' = forward_task \/ pc' = "await_task"]_vars
    /\ [](ErrorWrites("CONNECTION_FAILED") # {} => forward_task = None)

C17_Witness ==
    /\ TaskRunning
    /\ Relaying
    /\ upstream_log # <<>>
    /\ DataWritten # <<>>

\* ------------------------------------------------------- client disconnect

AllErrorWrites == ErrorWrites("PROVIDER_ERROR") \cup ErrorWrites("CONNECTION_FAILED")

\* The client has gone away after frames had been relayed to it, and no
\* receive from the upstream has failed.
ClientLeftRelay ==
    /\ websocket = "gone"
    /\ DataWritten # <<>>
    /\ in_exit # "recv_error"

\* C18: after the client has disconnected from a relaying session no Error
\* message is written or attempted on the client connection, and the
\* session that ended by the disconnect has gone through the whole
\* teardown: the upstream connection closed, nothing raised.  (Sessions in
\* which a receive from the upstream failed are left out: their error is
\* not the disconnect's.)
C18_DisconnectIsClean ==
    /\ [][ClientLeftRelay => AllErrorWrites' = AllErrorWrites]_vars
    /\ []((Terminal /\ out_exit = "disconnect" /\ in_exit # "recv_error")
             => (deepgram_ws = "closed" /\ exc = "None"))

\* ------------------------------------------------------- order of teardown

\* The handler has called deepgram_ws.close() (line 256).
UpstreamClosedByHandler == close_result # "None"

\* This step starts the write of an upstream frame to the client: the task
\* goes from the iteration of line 195 into lines 200-203.
StartsRelayWrite ==
    /\ forward_task # None
    /\ forward_task.at = "iter"
    /\ forward_task'.at = "send"

\* C19: whenever the handler has closed the upstream connection, the
\* shutdown signal is set and the task has exited; the signal, once set,
\* stays set; the task is cancelled in the step that sets the signal; and
\* with the signal set the task starts no write of an upstream frame to the
\* client.
C19_TeardownOrdered ==
    /\ [](UpstreamClosedByHandler => (stop_event /\ TaskEnded))
    /\ [][stop_event => stop_event']_vars
    /\ [][(~stop_event /\ stop_event' /\ forward_task # None)
             => (TaskDone(forward_task') \/ forward_task'.must_cancel)]_vars
    /\ [][stop_event => ~StartsRelayWrite]_vars

C19_Witness ==
    /\ UpstreamClosedByHandler
    /\ stop_event
    /\ in_exit = "cancelled"
    /\ upstream_inbox # <<>>
    /\ DataWritten # <<>>

\* ----------------------------------------------------------- error messages

\* C20: a session writes (or attempts) at most one Error message on the
\* client connection; CONNECTION_FAILED only in a session in which no
\* upstream connection was made and no task created; PROVIDER_ERROR only in
\* a step of the running task, from its except block.
C20_AtMostOneErrorMessage ==
    /\ [](Cardinality(AllErrorWrites) <= 1)
    /\ [](ErrorWrites("CONNECTION_FAILED") # {}
             => (forward_task = None /\ deepgram_ws = "None" /\ upstream_log = <<>>))
    /\ [][ErrorWrites("PROVIDER_ERROR")' # ErrorWrites("PROVIDER_ERROR")
             => /\ TaskRunning
                /\ forward_task.at = "report"
                /\ TaskDone(forward_task')
                /\ pc' = pc]_vars

C20_Witness ==
    /\ Terminal
    /\ Cardinality(ErrorsDelivered("PROVIDER_ERROR")) = 1
    /\ forward_task.at = "returned"
    /\ DataWritten # <<>>

====
